---- MODULE Spec2Model ----
(***************************************************************************)
(* Pseudo-spectral 2D vorticity solver (spectral_solver_DHIT_v2.py).       *)
(*                                                                         *)
(* Arrays are functions over 0-based index pairs.  A real number is a      *)
(* reduced fraction <<num, den>> with den > 0; <<k, 0>> is the content of  *)
(* a cell of np.empty that was never assigned.  A complex number is a      *)
(* pair <<re, im>> of reals.  Floating-point products and quotients are    *)
(* rounded to MantBits significant bits (round half to even): numpy's      *)
(* float64 does the same with 53 bits.                                     *)
(*                                                                         *)
(* pyfftw's transforms are an external library: the array a transform      *)
(* returns is drawn from a small family of arrays of the right shape.      *)
(***************************************************************************)
EXTENDS Integers, Sequences, FiniteSets, TLC

VARIABLES
    h_op,      \* function harness: the function applied last
    h_nx,      \* fine resolution nx = ny
    h_nxc,     \* coarse resolution nxc = nyc
    h_uf,      \* fine frequency-domain field
    h_ufc,     \* coarsen(nx,ny,nxc,nyc,uf)
    h_ufcc,    \* coarsen(nxc,nyc,nxc,nyc,ufc)
    h_u,       \* physical field returned by wave2phy / fps
    h_aux,     \* the four auxiliary fields of the Jacobian evaluators
    h_pad,     \* the auxiliary fields of nonlineardealiased, padded
    h_ext,     \* the corners of the padded fields, extracted and rescaled
    h_en       \* energy_spectrum: per shell the set of modes counted

hvars == <<h_op, h_nx, h_nxc, h_uf, h_ufc, h_ufcc, h_u, h_aux, h_pad, h_ext,
           h_en>>

VARIABLES
    pc,        \* position of the script
    inp,       \* the values read from input.txt
    freq,      \* int(nt/ns)
    n,         \* loop variable of the time integration
    steps,     \* iterations of the loop whose three stages have run
    kx, ky,    \* wavenumber vectors
    k2,        \* squared wavenumber field
    wnf,       \* evolving vorticity field, frequency domain
    w1f, w2f,  \* stage fields
    jnf, j1f, j2f,   \* Jacobians of the three stages
    jarg,      \* the field passed to the latest nonlineardealiased call
    out,       \* what the last write_data call computed
    w          \* final physical field

mvars == <<pc, inp, freq, n, steps, kx, ky, k2, wnf, w1f, w2f, jnf, j1f, j2f,
           jarg, out, w>>

vars == <<hvars, mvars>>

-----------------------------------------------------------------------------
(* Bounds of the model *)

\* grid sizes are 2, 4, .., 2*MaxHalf
MaxHalf == 4
\* significant bits of the modelled floating-point format
MantBits == 4
\* offsets added to the entries of the drawn input fields
MaxOff == 8
\* the script runs with nd in 2 .. MaxNd
MaxNd == 4
\* and with nt in 1 .. MaxNt
MaxNt == 2

-----------------------------------------------------------------------------
(* Real and complex arithmetic *)

Abs(a) == IF a < 0 THEN -a ELSE a

RECURSIVE GCD(_, _)
GCD(a, b) == IF b = 0 THEN a ELSE GCD(b, a % b)

RECURSIVE Pow2(_)
Pow2(k) == IF k = 0 THEN 1 ELSE 2 * Pow2(k - 1)

\* the reduced fraction n/d, d > 0
Rat(a, d) == LET g == GCD(Abs(a), d) IN <<a \div g, d \div g>>

Zero == <<0, 1>>
IntR(k) == <<k, 1>>
RNeg(x) == <<-x[1], x[2]>>
RMulExact(x, y) == Rat(x[1] * y[1], x[2] * y[2])

\* a/d for 2^(MantBits-1) <= a/d < 2^MantBits, rounded half to even
RoundHalfEven(a, d) ==
    LET q == a \div d
        r == a % d
    IN  IF 2 * r > d \/ (2 * r = d /\ q % 2 = 1) THEN q + 1 ELSE q

RECURSIVE RoundPos(_, _)
RoundPos(a, d) ==
    IF a >= d * Pow2(MantBits)
        THEN LET h == RoundPos(a, 2 * d) IN Rat(2 * h[1], h[2])
    ELSE IF a < d * Pow2(MantBits - 1)
        THEN LET h == RoundPos(2 * a, d) IN Rat(h[1], 2 * h[2])
    ELSE <<RoundHalfEven(a, d), 1>>

\* the nearest real with MantBits significant bits
Round(x) ==
    IF x[1] = 0 THEN Zero
    ELSE IF x[1] < 0 THEN RNeg(RoundPos(-x[1], x[2]))
    ELSE RoundPos(x[1], x[2])

\* float * float, float * int and 1.0 / int, each rounded
FMulR(x, y) == Round(RMulExact(x, y))
FMul(x, k) == Round(Rat(x[1] * k, x[2]))
FRecip(k) == Round(Rat(1, k))

CZero == <<Zero, Zero>>
\* complex * int64: the scalar is cast to complex, its imaginary part is 0
CMulInt(z, k) == <<FMul(z[1], k), FMul(z[2], k)>>
\* complex / int64: numpy's complex division forms scl = 1.0/(k + 0*0) and
\* multiplies both parts by it
CDivInt(z, k) == <<FMulR(z[1], FRecip(k)), FMulR(z[2], FRecip(k))>>

-----------------------------------------------------------------------------
(* Index sets *)

Idx(sz) == (0 .. sz - 1) \X (0 .. sz - 1)
Sizes == {2 * h : h \in 1 .. MaxHalf}

\* int(x/2) for an integer x >= 0
IntHalf(x) == x \div 2

\* signed wavenumber of index i under the periodic ordering of an n-point axis
Signed(sz, i) == IF 2 * i < sz THEN i ELSE i - sz

\* dst[dr0:dr0+rn, dc0:dc0+cn] = src[sr0:sr0+rn, sc0:sc0+cn]
AssignBlock(dst, dr0, rn, dc0, cn, src, sr0, sc0) ==
    [p \in DOMAIN dst |->
        IF /\ p[1] \in dr0 .. dr0 + rn - 1
           /\ p[2] \in dc0 .. dc0 + cn - 1
        THEN src[<<sr0 + (p[1] - dr0), sc0 + (p[2] - dc0)>>]
        ELSE dst[p]]

\* int(n - m/2) for integers n >= m >= 0 (m/2 is a float division)
IntSubHalf(sz, m) == sz - ((m + 1) \div 2)

-----------------------------------------------------------------------------
(* Entries of the frequency-domain fields *)

\* An entry of a frequency-domain field is a record: [num |-> z] is the
\* complex number z; [fft |-> id, at |-> q] is entry q of the array the
\* forward transform returned in Jacobian evaluation id; the other records
\* are the floating-point expressions the script builds from these.
Num(z) == [num |-> z]
ZeroE == Num(CZero)
IsNum(t) == DOMAIN t = {"num"}

\* t * num / den
TScale(t, num, den) ==
    IF IsNum(t) THEN Num(CDivInt(CMulInt(t.num, num), den))
    ELSE [scaled |-> t, by |-> <<num, den>>]

-----------------------------------------------------------------------------
(* coarsen *)

MapScale(f, num, den) == [p \in DOMAIN f |-> TScale(f[p], num, den)]

\* coarsen with the high blocks read from the middle of the fine axis
coarsen_mid(nx, ny, nxc, nyc, uf) ==
    LET hx == IntHalf(nxc)
        hy == IntHalf(nyc)
        sx == IntHalf(nx)
        sy == IntHalf(ny)
        z  == [p \in (0 .. nxc - 1) \X (0 .. nyc - 1) |-> ZeroE]
        b1 == AssignBlock(z, 0, hx, 0, hy, uf, 0, 0)
        b2 == AssignBlock(b1, hx, nxc - hx, 0, hy, uf, sx, 0)
        b3 == AssignBlock(b2, 0, hx, hy, nyc - hy, uf, 0, sy)
        b4 == AssignBlock(b3, hx, nxc - hx, hy, nyc - hy, uf, sx, sy)
    IN  MapScale(b4, nxc * nyc, nx * ny)

coarsen(nx, ny, nxc, nyc, uf) ==
    LET hx == IntHalf(nxc)
        hy == IntHalf(nyc)
        sx == IntSubHalf(nx, nxc)
        sy == IntSubHalf(ny, nyc)
        z  == [p \in (0 .. nxc - 1) \X (0 .. nyc - 1) |-> ZeroE]
        b1 == AssignBlock(z, 0, hx, 0, hy, uf, 0, 0)
        b2 == AssignBlock(b1, hx, nxc - hx, 0, hy, uf, sx, 0)
        b3 == AssignBlock(b2, 0, hx, hy, nyc - hy, uf, 0, sy)
        b4 == AssignBlock(b3, hx, nxc - hx, hy, nyc - hy, uf, sx, sy)
    IN  MapScale(b4, nxc * nyc, nx * ny)

-----------------------------------------------------------------------------
(* Wavenumbers *)

\* the indices themselves, without the wrap to negative wavenumbers
fftfreq_nowrap(sz) == [i \in 0 .. sz - 1 |-> i]

\* np.fft.fftfreq(n, 1/n): the n sample frequencies times 1/(n*d) = 1
fftfreq(sz) ==
    LET np1 == ((sz - 1) \div 2) + 1
    IN  [i \in 0 .. sz - 1 |-> IF i < np1 THEN i ELSE (i - np1) - (sz \div 2)]

\* a decimal literal m * 10^e, as <<m, e>>
RegK2 == <<1, -12>>
DecInt(k) == <<k, 0>>
DecPos(x) == x[1] > 0

\* k2 = kx*kx + ky*ky with the (0,0) entry left as computed
SquaredWavenumber_raw(kxv, kyv) ==
    [p \in (DOMAIN kxv) \X (DOMAIN kyv) |->
        DecInt(kxv[p[1]] * kxv[p[1]] + kyv[p[2]] * kyv[p[2]])]

\* k2 = kx*kx + ky*ky ; k2[0,0] = 1.0e-12
SquaredWavenumber(kxv, kyv) ==
    [p \in (DOMAIN kxv) \X (DOMAIN kyv) |->
        IF p = <<0, 0>> THEN RegK2
        ELSE DecInt(kxv[p[1]] * kxv[p[1]] + kyv[p[2]] * kyv[p[2]])]

\* a value outside the range of the modelled reals
Huge == <<99, 0>>

\* complex / k2 entry: an integer entry, or the regulariser 1.0e-12
CDivK2(z, k) ==
    IF k[2] = 0 THEN CDivInt(z, k[1])
    ELSE IF z = CZero THEN CZero
    ELSE <<Huge, Huge>>

-----------------------------------------------------------------------------
(* Physical-space fields *)

\* np.empty((n1, n2)): every cell holds whatever the allocator left there
Empty(n1, n2, g) ==
    [p \in (0 .. n1 - 1) \X (0 .. n2 - 1) |-> <<g + p[1] * n2 + p[2], 0>>]

Assigned(x) == x[2] # 0

\* the real arrays np.real(fft_object_inv(.)) may return on an n x n grid
RealFamily(sz) ==
    {[p \in Idx(sz) |-> IntR(s * (p[1] * sz + p[2]) + c)] :
        s \in {-1, 1}, c \in 0 .. MaxOff}

pbc(nx, ny, u) ==
    LET u1 == AssignBlock(u, 0, nx + 1, ny, 1, u, 0, 0)
        u2 == AssignBlock(u1, nx, 1, 0, ny + 1, u1, 0, 0)
    IN  AssignBlock(u2, nx, 1, ny, 1, u2, 0, 0)

\* wave2phy with the last row filled from columns 0 .. ny-1 only
wave2phy_shortrow(nx, ny, ut, g) ==
    LET u0 == Empty(nx + 1, ny + 1, g)
        u1 == AssignBlock(u0, 0, nx, 0, ny, ut, 0, 0)
        u2 == AssignBlock(u1, 0, nx + 1, ny, 1, u1, 0, 0)
    IN  AssignBlock(u2, nx, 1, 0, ny, u2, 0, 0)

\* ut is np.real(fft_object_inv(uf)), g the content of the fresh np.empty
wave2phy(nx, ny, ut, g) ==
    LET u0 == Empty(nx + 1, ny + 1, g)
        u1 == AssignBlock(u0, 0, nx, 0, ny, ut, 0, 0)
        u2 == AssignBlock(u1, 0, nx + 1, ny, 1, u1, 0, 0)
    IN  AssignBlock(u2, nx, 1, 0, ny + 1, u2, 0, 0)

\* ut is np.real(fft_object_inv(f/(-k2))); data1 is read by the transform only
fps(nx, ny, ut) ==
    LET u0 == [p \in (0 .. nx) \X (0 .. ny) |-> Zero]
        u1 == AssignBlock(u0, 0, nx, 0, ny, ut, 0, 0)
    IN  pbc(nx, ny, u1)

-----------------------------------------------------------------------------
(* Auxiliary fields of the Jacobian evaluators *)

\* (1.0j * k) * z and (-1.0j * k) * z for a real k
CMulIK(k, z) == <<RNeg(FMulR(IntR(k), z[2])), FMulR(IntR(k), z[1])>>
CMulNegIK(k, z) == <<FMulR(IntR(k), z[2]), RNeg(FMulR(IntR(k), z[1]))>>

AuxDealiased(kxv, kyv, k2v, wf) ==
    [j1f |-> [p \in DOMAIN wf |-> Num(CDivK2(CMulNegIK(kxv[p[1]], wf[p].num), k2v[p]))],
     j2f |-> [p \in DOMAIN wf |-> Num(CMulIK(kyv[p[2]], wf[p].num))],
     j3f |-> [p \in DOMAIN wf |-> Num(CDivK2(CMulNegIK(kyv[p[2]], wf[p].num), k2v[p]))],
     j4f |-> [p \in DOMAIN wf |-> Num(CMulIK(kxv[p[1]], wf[p].num))]]

AuxNonlinear(kxv, kyv, k2v, wf) ==
    [j1f |-> [p \in DOMAIN wf |-> Num(CDivK2(CMulIK(kxv[p[1]], wf[p].num), k2v[p]))],
     j2f |-> [p \in DOMAIN wf |-> Num(CMulIK(kyv[p[2]], wf[p].num))],
     j3f |-> [p \in DOMAIN wf |-> Num(CDivK2(CMulIK(kyv[p[2]], wf[p].num), k2v[p]))],
     j4f |-> [p \in DOMAIN wf |-> Num(CMulIK(kxv[p[1]], wf[p].num))]]

-----------------------------------------------------------------------------
(* energy_spectrum *)

EpsK == <<1, -6>>

\* kx of energy_spectrum: 0 .. nx/2-1, -nx/2 .. -1, then kx[0] = epsilon
SpectrumK(nx) ==
    [i \in 0 .. nx - 1 |->
        IF i = 0 THEN EpsK
        ELSE IF i < IntHalf(nx) THEN DecInt(i) ELSE DecInt(i - nx)]

RECURSIVE ISqrtFrom(_, _)
ISqrtFrom(s, r) == IF (r + 1) * (r + 1) > s THEN r ELSE ISqrtFrom(s, r + 1)

\* the shell count without the division by 2.0
NShells_nohalf(nx, ny) == ISqrtFrom(nx * nx + ny * ny, 0) - 1

\* n = int(np.sqrt(nx*nx + ny*ny)/2.0) - 1
NShells(nx, ny) == (ISqrtFrom(nx * nx + ny * ny, 0) \div 2) - 1

\* k - 0.5 < sqrt(s) < k + 0.5 for an integer s
InShell(s, k) ==
    /\ 4 * s > (2 * k - 1) * (2 * k - 1)
    /\ 4 * s < (2 * k + 1) * (2 * k + 1)

\* ii+1, jj+1 of np.where on kk[1:,1:]
ShellWhere(nx, ny, k) ==
    LET kxv == SpectrumK(nx)
        kyv == SpectrumK(ny)
    IN  {p \in (1 .. nx - 1) \X (1 .. ny - 1) :
            InShell(kxv[p[1]][1] * kxv[p[1]][1] + kyv[p[2]][1] * kyv[p[2]][1], k)}

\* per shell: the modes summed into en[k] and the divisor ic
energy_spectrum(nx, ny) ==
    [k \in 1 .. NShells(nx, ny) |->
        [modes |-> ShellWhere(nx, ny, k),
         ic |-> Cardinality(ShellWhere(nx, ny, k))]]

-----------------------------------------------------------------------------
(* Padding and extraction in nonlineardealiased *)

\* the padded array with the high blocks written from the middle on
PadCorners_mid(nx, ny, f) ==
    LET nxe == 2 * nx
        nye == 2 * ny
        hx == IntHalf(nx)
        hy == IntHalf(ny)
        z  == [q \in (0 .. nxe - 1) \X (0 .. nye - 1) |-> ZeroE]
        b1 == AssignBlock(z, 0, hx, 0, hy, f, 0, 0)
        b2 == AssignBlock(b1, nx, nx - hx, 0, hy, f, hx, 0)
        b3 == AssignBlock(b2, 0, hx, ny, ny - hy, f, 0, hy)
        b4 == AssignBlock(b3, nx, nx - hx, ny, ny - hy, f, hx, hy)
    IN  MapScale(b4, nxe * nye, nx * ny)

\* jkf_padded of nonlineardealiased: zeros((nxe,nye)), the four blocks of f
\* written into its corners, then f_padded*(nxe*nye)/(nx*ny)
PadCorners(nx, ny, f) ==
    LET nxe == 2 * nx
        nye == 2 * ny
        hx == IntHalf(nx)
        hy == IntHalf(ny)
        sx == IntSubHalf(nxe, nx)
        sy == IntSubHalf(nye, ny)
        z  == [q \in (0 .. nxe - 1) \X (0 .. nye - 1) |-> ZeroE]
        b1 == AssignBlock(z, 0, hx, 0, hy, f, 0, 0)
        b2 == AssignBlock(b1, sx, nx - hx, 0, hy, f, hx, 0)
        b3 == AssignBlock(b2, 0, hx, sy, ny - hy, f, 0, hy)
        b4 == AssignBlock(b3, sx, nx - hx, sy, ny - hy, f, hx, hy)
    IN  MapScale(b4, nxe * nye, nx * ny)

\* jf of nonlineardealiased from jacpf: zeros((nx,ny)), the four corners of
\* jacpf written into its blocks, then jf*(nx*ny)/(nxe*nye)
ExtractCorners(nx, ny, jacpf) ==
    LET nxe == 2 * nx
        nye == 2 * ny
        hx == IntHalf(nx)
        hy == IntHalf(ny)
        sx == IntSubHalf(nxe, nx)
        sy == IntSubHalf(nye, ny)
        z  == [p \in (0 .. nx - 1) \X (0 .. ny - 1) |-> ZeroE]
        b1 == AssignBlock(z, 0, hx, 0, hy, jacpf, 0, 0)
        b2 == AssignBlock(b1, hx, nx - hx, 0, hy, jacpf, sx, 0)
        b3 == AssignBlock(b2, 0, hx, hy, ny - hy, jacpf, 0, sy)
        b4 == AssignBlock(b3, hx, nx - hx, hy, ny - hy, jacpf, sx, sy)
    IN  MapScale(b4, nx * ny, nxe * nye)

-----------------------------------------------------------------------------
(* The functions applied to drawn inputs *)

None == <<>>

\* frequency-domain input fields: every entry differs from every other
FieldFamily(sz) ==
    {[p \in Idx(sz) |-> Num(<<Round(IntR(p[1] + 1 + b)), Round(IntR(p[2] + 1))>>)] :
        b \in 0 .. MaxOff}

HInit ==
    /\ h_op = "init"
    /\ h_nx \in Sizes
    /\ h_nxc \in {c \in Sizes : c <= h_nx}
    /\ h_uf \in FieldFamily(h_nx)
    /\ h_ufc = None
    /\ h_ufcc = None
    /\ h_u = None
    /\ h_aux = None
    /\ h_pad = None
    /\ h_ext = None
    /\ h_en = None

DoCoarsen ==
    /\ h_op = "init"
    /\ h_ufc' = coarsen(h_nx, h_nx, h_nxc, h_nxc, h_uf)
    /\ h_op' = "coarsen"
    /\ UNCHANGED <<h_nx, h_nxc, h_uf, h_ufcc, h_u, h_aux, h_pad, h_ext,
                   h_en>>
    /\ UNCHANGED mvars

DoRecoarsen ==
    /\ h_op = "coarsen"
    /\ h_ufcc' = coarsen(h_nxc, h_nxc, h_nxc, h_nxc, h_ufc)
    /\ h_op' = "recoarsen"
    /\ UNCHANGED <<h_nx, h_nxc, h_uf, h_ufc, h_u, h_aux, h_pad, h_ext,
                   h_en>>
    /\ UNCHANGED mvars

DoWave2phy ==
    /\ h_op = "init"
    /\ \E ut \in RealFamily(h_nx), g \in 1 .. 2 :
          h_u' = wave2phy(h_nx, h_nx, ut, g)
    /\ h_op' = "wave2phy"
    /\ UNCHANGED <<h_nx, h_nxc, h_uf, h_ufc, h_ufcc, h_aux, h_pad, h_ext,
                   h_en>>
    /\ UNCHANGED mvars

DoFps ==
    /\ h_op = "init"
    /\ \E ut \in RealFamily(h_nx) : h_u' = fps(h_nx, h_nx, ut)
    /\ h_op' = "fps"
    /\ UNCHANGED <<h_nx, h_nxc, h_uf, h_ufc, h_ufcc, h_aux, h_pad, h_ext,
                   h_en>>
    /\ UNCHANGED mvars

DoAux ==
    /\ h_op = "init"
    /\ LET kxv == fftfreq(h_nx)
           kyv == fftfreq(h_nx)
           k2v == SquaredWavenumber(kxv, kyv)
       IN  h_aux' = [dealiased |-> AuxDealiased(kxv, kyv, k2v, h_uf),
                     plain |-> AuxNonlinear(kxv, kyv, k2v, h_uf)]
    /\ h_op' = "aux"
    /\ UNCHANGED <<h_nx, h_nxc, h_uf, h_ufc, h_ufcc, h_u, h_pad, h_ext,
                   h_en>>
    /\ UNCHANGED mvars

DoSpectrum ==
    /\ h_op = "init"
    /\ h_en' = energy_spectrum(h_nx, h_nx)
    /\ h_op' = "spectrum"
    /\ UNCHANGED <<h_nx, h_nxc, h_uf, h_ufc, h_ufcc, h_u, h_aux, h_pad,
                   h_ext>>
    /\ UNCHANGED mvars

\* the four auxiliary fields of nonlineardealiased, padded
DoPad ==
    /\ h_op = "aux"
    /\ h_pad' = [k \in DOMAIN h_aux.dealiased |->
                    PadCorners(h_nx, h_nx, h_aux.dealiased[k])]
    /\ h_op' = "pad"
    /\ UNCHANGED <<h_nx, h_nxc, h_uf, h_ufc, h_ufcc, h_u, h_aux, h_ext, h_en>>
    /\ UNCHANGED mvars

\* the extraction of nonlineardealiased, applied to the padded fields
DoExtract ==
    /\ h_op = "pad"
    /\ h_ext' = [k \in DOMAIN h_pad |-> ExtractCorners(h_nx, h_nx, h_pad[k])]
    /\ h_op' = "extract"
    /\ UNCHANGED <<h_nx, h_nxc, h_uf, h_ufc, h_ufcc, h_u, h_aux, h_pad, h_en>>
    /\ UNCHANGED mvars

HNext ==
    \/ DoCoarsen
    \/ DoRecoarsen
    \/ DoWave2phy
    \/ DoFps
    \/ DoAux
    \/ DoPad
    \/ DoExtract
    \/ DoSpectrum


-----------------------------------------------------------------------------
(* The script: values of the frequency-domain fields *)

\* np.empty((nx,ny), dtype='complex128')
EmptyC(nx, ny, g) ==
    [p \in (0 .. nx - 1) \X (0 .. ny - 1) |->
        Num(<<<<g + p[1] * ny + p[2], 0>>, <<g, 0>>>>)]

\* the arrays fft_object(data) may return for the initial field
InitialFamily(nx) ==
    {[p \in Idx(nx) |-> Num(<<Round(IntR(p[1] + 1 + b)), Round(IntR(p[2] + 1))>>)] :
        b \in 0 .. 1}

\* the zero mode left as the stage formula computed it
ZeroMode_skip(f) == f

\* f[0,0] = 0.0
ZeroMode(f) == [f EXCEPT ![<<0, 0>>] = ZeroE]

\* jf of nonlineardealiased: the corners of the padded transform of the
\* product, scaled by nx*ny/(nxe*nye); id names the evaluation
nonlineardealiased(nx, ny, id) ==
    LET jacpf == [q \in (0 .. 2 * nx - 1) \X (0 .. 2 * ny - 1) |->
                    [fft |-> id, at |-> q]]
    IN  ExtractCorners(nx, ny, jacpf)

\* ((1.0 - d1)/(1.0 + d1))*wnf + (g1*dt*jnf)/(1.0 + d1), d1 = a1*0.5*dt*k2/re
Stage1Field(k2f, wf, jf) ==
    [p \in DOMAIN wf |-> [stage |-> 1, k2 |-> k2f[p], lin |-> wf[p], jg |-> jf[p]]]

\* stage 2 or 3 with the two Jacobians taken in the other order
Stage23Field_swapped(s, k2f, wf, jr, jg) ==
    [p \in DOMAIN wf |->
        [stage |-> s, k2 |-> k2f[p], lin |-> wf[p], jr |-> jg[p], jg |-> jr[p]]]

\* ((1.0 - ds)/(1.0 + ds))*wf + (rs*dt*jr + gs*dt*jg)/(1.0 + ds), s = 2, 3
Stage23Field(s, k2f, wf, jr, jg) ==
    [p \in DOMAIN wf |->
        [stage |-> s, k2 |-> k2f[p], lin |-> wf[p], jr |-> jr[p], jg |-> jg[p]]]

-----------------------------------------------------------------------------
(* write_data *)

\* the real arrays the transforms of one write_data call may return (the
\* cells of np.empty are drawn where wave2phy is applied on its own)
DiagFamily(nx) ==
    {[p \in Idx(nx) |-> IntR(p[1] * nx + p[2] + c)] : c \in 0 .. 1}

\* write_data with the Poisson right-hand side formed by negating wf in place
write_data_inplace(nx, ny, kxa, kya, k2a, nxc, nyc, wf, nn, fr, us, uw, g) ==
    LET kxc == fftfreq(nxc)
        kyc == fftfreq(nyc)
        k2c == SquaredWavenumber(kxc, kyc)
        jf  == nonlineardealiased(nx, ny, <<nn, 4>>)
        wfc == coarsen(nx, ny, nxc, nyc, wf)
    IN  [wf |-> [p \in DOMAIN wf |-> [neg |-> wf[p]]],
         kx |-> kxa, ky |-> kya, k2 |-> k2a,
         s |-> fps(nx, ny, us),
         w |-> wave2phy(nx, ny, uw, g),
         kxc |-> kxc, kyc |-> kyc, k2c |-> k2c,
         jfc |-> coarsen(nx, ny, nxc, nyc, jf),
         wfc |-> wfc,
         jcoarsef |-> nonlineardealiased(nxc, nyc, <<nn, 5>>),
         file |-> nn \div fr]

\* The arrays write_data computes from its arguments, with the arguments as
\* the call leaves them: wf, kx, ky and k2 are only read (-wf, f/(-k2) and
\* the products with kx, ky are fresh arrays; the transforms copy their input).
write_data(nx, ny, kxa, kya, k2a, nxc, nyc, wf, nn, fr, us, uw, g) ==
    LET kxc == fftfreq(nxc)
        kyc == fftfreq(nyc)
        k2c == SquaredWavenumber(kxc, kyc)
        jf  == nonlineardealiased(nx, ny, <<nn, 4>>)
        wfc == coarsen(nx, ny, nxc, nyc, wf)
    IN  [wf |-> wf, kx |-> kxa, ky |-> kya, k2 |-> k2a,
         s |-> fps(nx, ny, us),
         w |-> wave2phy(nx, ny, uw, g),
         kxc |-> kxc, kyc |-> kyc, k2c |-> k2c,
         jfc |-> coarsen(nx, ny, nxc, nyc, jf),
         wfc |-> wfc,
         jcoarsef |-> nonlineardealiased(nxc, nyc, <<nn, 5>>),
         file |-> nn \div fr]

-----------------------------------------------------------------------------
(* The script *)

Inputs ==
    [nd : 2 .. MaxNd, ndc : 2 .. MaxNd, nt : 1 .. MaxNt, ns : 0 .. MaxNt + 1,
     ich : {18, 19}, ichkp : {0, 1}, istart : {0, 1}]

MInit ==
    /\ pc = "read"
    /\ inp \in {c \in Inputs : c.ndc <= c.nd}
    /\ freq = 0
    /\ n = 0
    /\ steps = 0
    /\ kx = None
    /\ ky = None
    /\ k2 = None
    /\ wnf = None
    /\ w1f = None
    /\ w2f = None
    /\ jnf = None
    /\ j1f = None
    /\ j2f = None
    /\ jarg = None
    /\ out = None
    /\ w = None

\* freq = int(nt/ns) with ns = 0: nt/ns is inf and int(inf) raises
ReadFails ==
    /\ pc = "read"
    /\ inp.ns = 0
    /\ pc' = "error"
    /\ UNCHANGED <<inp, freq, n, steps, kx, ky, k2, wnf, w1f, w2f, jnf, j1f, j2f,
                   jarg, out, w>>
    /\ UNCHANGED hvars

\* input.txt is read, the initial field is built or loaded and transformed,
\* the wavenumbers are set up; ich # 19 prints a message and goes on
Setup ==
    /\ pc = "read"
    /\ inp.ns # 0
    /\ freq' = inp.nt \div inp.ns
    /\ kx' = fftfreq(inp.nd)
    /\ ky' = fftfreq(inp.nd)
    /\ k2' = SquaredWavenumber(kx', ky')
    /\ wnf' \in InitialFamily(inp.nd)
    /\ \E g \in 1 .. 2 :
          /\ w1f' = EmptyC(inp.nd, inp.nd, g)
          /\ w2f' = EmptyC(inp.nd, inp.nd, g + 1)
    /\ n' = inp.ichkp * inp.istart * freq' + 1
    /\ pc' = "stage1"
    /\ UNCHANGED <<inp, steps, jnf, j1f, j2f, jarg, out, w>>
    /\ UNCHANGED hvars

Stage1 ==
    /\ pc = "stage1"
    /\ n <= inp.nt
    /\ jarg' = wnf
    /\ jnf' = nonlineardealiased(inp.nd, inp.nd, <<n, 1>>)
    /\ w1f' = ZeroMode(Stage1Field(k2, wnf, jnf'))
    /\ pc' = "stage2"
    /\ UNCHANGED <<inp, freq, n, steps, kx, ky, k2, wnf, w2f, j1f, j2f, out, w>>
    /\ UNCHANGED hvars

Stage2 ==
    /\ pc = "stage2"
    /\ jarg' = w1f
    /\ j1f' = nonlineardealiased(inp.nd, inp.nd, <<n, 2>>)
    /\ w2f' = ZeroMode(Stage23Field(2, k2, w1f, jnf, j1f'))
    /\ pc' = "stage3"
    /\ UNCHANGED <<inp, freq, n, steps, kx, ky, k2, wnf, w1f, jnf, j2f, out, w>>
    /\ UNCHANGED hvars

Stage3 ==
    /\ pc = "stage3"
    /\ jarg' = w2f
    /\ j2f' = nonlineardealiased(inp.nd, inp.nd, <<n, 3>>)
    /\ wnf' = ZeroMode(Stage23Field(3, k2, w2f, j1f, j2f'))
    /\ steps' = steps + 1
    /\ pc' = "check"
    /\ UNCHANGED <<inp, freq, n, kx, ky, k2, w1f, w2f, jnf, j1f, out, w>>
    /\ UNCHANGED hvars

\* n % freq with freq = 0 raises
CheckFails ==
    /\ pc = "check"
    /\ freq = 0
    /\ pc' = "error"
    /\ UNCHANGED <<inp, freq, n, steps, kx, ky, k2, wnf, w1f, w2f, jnf, j1f, j2f,
                   jarg, out, w>>
    /\ UNCHANGED hvars

SkipWrite ==
    /\ pc = "check"
    /\ freq # 0
    /\ n % freq # 0
    /\ n' = n + 1
    /\ pc' = "stage1"
    /\ UNCHANGED <<inp, freq, steps, kx, ky, k2, wnf, w1f, w2f, jnf, j1f, j2f,
                   jarg, out, w>>
    /\ UNCHANGED hvars

WriteData ==
    /\ pc = "check"
    /\ freq # 0
    /\ n % freq = 0
    /\ \E us \in DiagFamily(inp.nd), uw \in DiagFamily(inp.nd) :
          LET r == write_data(inp.nd, inp.nd, kx, ky, k2, inp.ndc, inp.ndc,
                              wnf, n, freq, us, uw, 1)
          IN  /\ wnf' = r.wf
              /\ kx' = r.kx
              /\ ky' = r.ky
              /\ k2' = r.k2
              /\ out' = [x \in DOMAIN r \ {"wf", "kx", "ky", "k2"} |-> r[x]]
              /\ jarg' = r.wfc
    /\ n' = n + 1
    /\ pc' = "stage1"
    /\ UNCHANGED <<inp, freq, steps, w1f, w2f, jnf, j1f, j2f, w>>
    /\ UNCHANGED hvars

\* after the loop: w = wave2phy(nx,ny,wnf)
Finish ==
    /\ pc = "stage1"
    /\ n > inp.nt
    /\ \E ut \in DiagFamily(inp.nd) : w' = wave2phy(inp.nd, inp.nd, ut, 1)
    /\ pc' = "done"
    /\ UNCHANGED <<inp, freq, n, steps, kx, ky, k2, wnf, w1f, w2f, jnf, j1f, j2f,
                   jarg, out>>
    /\ UNCHANGED hvars

MNext ==
    \/ ReadFails
    \/ Setup
    \/ Stage1
    \/ Stage2
    \/ Stage3
    \/ CheckFails
    \/ SkipWrite
    \/ WriteData
    \/ Finish

-----------------------------------------------------------------------------
(* Specifications *)

HIdle ==
    /\ h_op = "idle"
    /\ h_nx = 0
    /\ h_nxc = 0
    /\ h_uf = None
    /\ h_ufc = None
    /\ h_ufcc = None
    /\ h_u = None
    /\ h_aux = None
    /\ h_pad = None
    /\ h_ext = None
    /\ h_en = None

MIdle ==
    /\ pc = "idle"
    /\ inp = None
    /\ freq = 0
    /\ n = 0
    /\ steps = 0
    /\ kx = None
    /\ ky = None
    /\ k2 = None
    /\ wnf = None
    /\ w1f = None
    /\ w2f = None
    /\ jnf = None
    /\ j1f = None
    /\ j2f = None
    /\ jarg = None
    /\ out = None
    /\ w = None

Init == MInit /\ HIdle
Next == MNext

\* the script, run on drawn inputs
Spec == Init /\ [][Next]_vars

FnInit == HInit /\ MIdle
FnNext == HNext

\* the functions, applied to drawn inputs
SpecFn == FnInit /\ [][FnNext]_vars


-----------------------------------------------------------------------------
(* Claims about the functions *)

Periodic(u, nx, ny) ==
    /\ DOMAIN u = (0 .. nx) \X (0 .. ny)
    /\ \A i \in 0 .. nx : u[<<i, ny>>] = u[<<i, 0>>]
    /\ \A j \in 0 .. ny : u[<<nx, j>>] = u[<<0, j>>]
    /\ u[<<nx, ny>>] = u[<<0, 0>>]
    /\ \A p \in DOMAIN u : Assigned(u[p])

\* C2: every field returned by wave2phy and by fps is (N+1) x (N+1), its last
\* column repeats its first column, its last row its first row, its corner
\* [N,N] its origin [0,0], and no cell keeps the allocator's content.
C2_Periodic ==
    h_op \in {"wave2phy", "fps"} => Periodic(h_u, h_nx, h_nx)

C2_Witness ==
    /\ h_op = "wave2phy"
    /\ h_nx = 4
    /\ h_u[<<4, 4>>] = h_u[<<0, 0>>]
    /\ h_u[<<1, 0>>] # h_u[<<0, 0>>]

\* source index of coarse index i, as the claim states it
CoarseSrc(sz, nc, i) == IF i < nc \div 2 THEN i ELSE sz - nc + i

\* uf with every entry outside the four nc/2 x nc/2 corner blocks overwritten
OutsideCorner(sz, nc, i) == i >= nc \div 2 /\ i < sz - nc \div 2
MaskOutside(sz, nc, uf) ==
    [p \in DOMAIN uf |->
        IF OutsideCorner(sz, nc, p[1]) \/ OutsideCorner(sz, nc, p[2])
        THEN Num(<<Huge, Huge>>) ELSE uf[p]]

\* C3: for even N and even Nc < N every coarse entry (i,j) is Nc*Nc/(N*N)
\* times the fine entry (src(i),src(j)), which carries the same signed
\* wavenumber pair; every coarse entry is assigned, and the result does not
\* depend on any fine entry outside the four corner blocks.
C3_CoarsenMap ==
    (h_op \in {"coarsen", "recoarsen"} /\ h_nxc < h_nx) =>
        /\ DOMAIN h_ufc = Idx(h_nxc)
        /\ \A p \in Idx(h_nxc) :
              /\ h_ufc[p] =
                    TScale(h_uf[<<CoarseSrc(h_nx, h_nxc, p[1]),
                                  CoarseSrc(h_nx, h_nxc, p[2])>>],
                           h_nxc * h_nxc, h_nx * h_nx)
              /\ h_ufc[p] # ZeroE
              /\ Signed(h_nxc, p[1]) = Signed(h_nx, CoarseSrc(h_nx, h_nxc, p[1]))
              /\ Signed(h_nxc, p[2]) = Signed(h_nx, CoarseSrc(h_nx, h_nxc, p[2]))
        /\ coarsen(h_nx, h_nx, h_nxc, h_nxc, MaskOutside(h_nx, h_nxc, h_uf)) = h_ufc

C3_Witness ==
    /\ h_op = "coarsen"
    /\ h_nx = 8
    /\ h_nxc = 4
    /\ h_ufc[<<3, 2>>] = TScale(h_uf[<<7, 6>>], 16, 64)

\* C4: coarsening the coarsened field to Nc again returns it entry for entry.
C4_Idempotent ==
    (h_op = "recoarsen" /\ h_nxc < h_nx) => h_ufcc = h_ufc

\* C5: the non-dealiased evaluator builds the same four auxiliary fields,
\* with the same signs and coefficients, as the dealiased evaluator.
C5_SameAux ==
    h_op = "aux" => h_aux.plain = h_aux.dealiased

\* C7: the mode count ic of every shell 1..kmax is positive, so en[k]/ic
\* never divides by zero.
C7_NoEmptyShell ==
    h_op = "spectrum" => \A k \in DOMAIN h_en : h_en[k].ic > 0

C7_Witness ==
    /\ h_op = "spectrum"
    /\ h_nx = 8
    /\ DOMAIN h_en = 1 .. 4
    /\ h_en[4].ic > 0

\* all modes of the n x n grid but (0,0) whose magnitude lies in shell k
AllShellModes(sz, k) ==
    {p \in Idx(sz) \ {<<0, 0>>} :
        InShell(Signed(sz, p[1]) * Signed(sz, p[1])
                + Signed(sz, p[2]) * Signed(sz, p[2]), k)}

\* C8: the modes averaged into shell k are all the grid modes but (0,0)
\* whose magnitude lies in (k-0.5, k+0.5), those on the axes included.
C8_AllModes ==
    h_op = "spectrum" =>
        \A k \in DOMAIN h_en : h_en[k].modes = AllShellModes(h_nx, k)

-----------------------------------------------------------------------------
(* Claims about the script *)

\* C1: once a step of the time integration has completed, the (0,0) entry
\* of wnf is exactly zero at every point of the run, restarts included; so
\* is the (0,0) entry of w1f from the end of stage 1 and of w2f from the
\* end of stage 2, whatever the Jacobian's (0,0) entry is.
C1_ZeroMode ==
    /\ steps >= 1 => wnf[<<0, 0>>] = ZeroE
    /\ (steps >= 1 \/ pc \in {"stage2", "stage3", "check"}) =>
          w1f[<<0, 0>>] = ZeroE
    /\ (steps >= 1 \/ pc \in {"stage3", "check"}) => w2f[<<0, 0>>] = ZeroE

C1_Witness ==
    /\ pc = "check"
    /\ steps = 1
    /\ inp.ichkp = 1
    /\ inp.istart = 1
    /\ wnf[<<0, 0>>] = ZeroE
    /\ j2f[<<0, 0>>] # ZeroE
    /\ wnf[<<1, 0>>] # ZeroE

InvalidInput ==
    \/ inp.nd % 2 = 1
    \/ inp.ndc % 2 = 1
    \/ inp.ns > inp.nt
    \/ inp.ich # 19

\* C6: with invalid input parameters no stage of the time-integration loop
\* runs and the script does not complete.
C6_FailFast ==
    InvalidInput => (steps = 0 /\ pc \notin {"stage2", "stage3", "check", "done"})

\* C9: a write_data call leaves wnf, kx, ky and k2 exactly as they were.
C9_Frame ==
    [][(pc = "check" /\ freq # 0 /\ n % freq = 0) =>
          (wnf' = wnf /\ kx' = kx /\ ky' = ky /\ k2' = k2)]_vars

C9_Witness ==
    /\ pc = "stage1"
    /\ steps = 2
    /\ out # None
    /\ out.file = 2
    /\ wnf[<<1, 1>>].stage = 3

\* C10: for even N index i < N/2 of kx and ky holds wavenumber i and index
\* i >= N/2 holds i - N, in the fine-grid vectors of the script and in the
\* coarse-grid vectors write_data builds.
C10_Ordering ==
    /\ (pc \notin {"read", "idle"} /\ inp.ns # 0 /\ inp.nd % 2 = 0) =>
          /\ DOMAIN kx = 0 .. inp.nd - 1
          /\ DOMAIN ky = 0 .. inp.nd - 1
          /\ \A i \in 0 .. inp.nd - 1 :
                kx[i] = Signed(inp.nd, i) /\ ky[i] = Signed(inp.nd, i)
    /\ (pc \notin {"read", "idle"} /\ out # None /\ inp.ndc % 2 = 0) =>
          /\ DOMAIN out.kxc = 0 .. inp.ndc - 1
          /\ DOMAIN out.kyc = 0 .. inp.ndc - 1
          /\ \A i \in 0 .. inp.ndc - 1 :
                out.kxc[i] = Signed(inp.ndc, i) /\ out.kyc[i] = Signed(inp.ndc, i)

C10_Witness ==
    /\ out # None
    /\ inp.nd = 4
    /\ inp.ndc = 2
    /\ kx[2] = -2
    /\ kx[1] = 1
    /\ out.kxc[1] = -1

\* k2f is kxv^2 + kyv^2 off (0,0), the positive constant at (0,0), and
\* positive everywhere
K2Regularised(k2f, kxv, kyv) ==
    /\ DOMAIN k2f = (DOMAIN kxv) \X (DOMAIN kyv)
    /\ k2f[<<0, 0>>] = RegK2
    /\ \A p \in DOMAIN k2f :
          /\ DecPos(k2f[p])
          /\ p # <<0, 0>> =>
                /\ k2f[p] = DecInt(kxv[p[1]] * kxv[p[1]] + kyv[p[2]] * kyv[p[2]])
                /\ kxv[p[1]] * kxv[p[1]] + kyv[p[2]] * kyv[p[2]] > 0

\* the field as the script builds it, for every grid size of the model
K2AllSizes ==
    \A sz \in 2 .. 2 * MaxHalf + 1 :
        K2Regularised(SquaredWavenumber(fftfreq(sz), fftfreq(sz)),
                      fftfreq(sz), fftfreq(sz))

\* C11: the squared-wavenumber field k2 the script hands to the Jacobian
\* evaluator and the Poisson solver has no zero entry: off (0,0) it is
\* kx[i]^2 + ky[j]^2, which is positive, and only (0,0) is replaced, by a
\* positive constant; the same holds for k2c of write_data.
C11_NoZero ==
    /\ k2 # None => K2Regularised(k2, kx, ky)
    /\ out # None => K2Regularised(out.k2c, out.kxc, out.kyc)
    /\ pc = "stage1" => K2AllSizes

C11_Witness ==
    /\ pc = "stage1"
    /\ out # None
    /\ inp.nd = 4
    /\ inp.ndc = 3
    /\ k2[<<0, 0>>] = <<1, -12>>
    /\ k2[<<2, 1>>] = <<5, 0>>
    /\ out.k2c[<<2, 2>>] = <<2, 0>>
    /\ out.k2c[<<0, 0>>] = <<1, -12>>

\* the evaluation a Jacobian entry comes from
JId(e) == e.scaled.fft

Off00(sz) == Idx(sz) \ {<<0, 0>>}

\* the fields of step n once its three stages have run
StepDone ==
    \A p \in Off00(inp.nd) :
        /\ JId(jnf[p]) = <<n, 1>>
        /\ JId(j1f[p]) = <<n, 2>>
        /\ JId(j2f[p]) = <<n, 3>>
        /\ w1f[p] = [stage |-> 1, k2 |-> k2[p], lin |-> w1f[p].lin, jg |-> jnf[p]]
        /\ w2f[p] = [stage |-> 2, k2 |-> k2[p], lin |-> w1f[p],
                                  jr |-> jnf[p], jg |-> j1f[p]]
        /\ wnf[p] = [stage |-> 3, k2 |-> k2[p], lin |-> w2f[p],
                                  jr |-> j1f[p], jg |-> j2f[p]]

StageOrder ==
    /\ pc' = "stage2" => pc = "stage1"
    /\ pc' = "stage3" => pc = "stage2"
    /\ pc' = "check" => pc = "stage3"
    /\ pc = "stage1" => pc' \in {"stage2", "done"}
    /\ pc = "stage2" => pc' = "stage3"
    /\ pc = "stage3" => pc' = "check"
    /\ (pc = "check" /\ pc' = "stage1") => (wnf' = wnf /\ n' = n + 1)
    /\ pc' # "stage1" => n' = n

StageInputs ==
    /\ (pc = "stage1" /\ pc' = "stage2") =>
          /\ jarg' = wnf
          /\ wnf' = wnf
          /\ \A p \in Off00(inp.nd) :
                w1f'[p] = [stage |-> 1, k2 |-> k2[p], lin |-> wnf[p], jg |-> jnf'[p]]
    /\ pc = "stage2" =>
          /\ jarg' = w1f
          /\ <<wnf', w1f', jnf'>> = <<wnf, w1f, jnf>>
    /\ pc = "stage3" =>
          /\ jarg' = w2f
          /\ <<w1f', w2f', jnf', j1f'>> = <<w1f, w2f, jnf, j1f>>
          /\ \A p \in Off00(inp.nd) : w1f[p].lin = wnf[p]
          /\ StepDone'

\* C12: a time step runs stage 1, stage 2, stage 3 in this order, each with
\* one Jacobian evaluation: on the step-start field wnf, on the stage-1
\* result and on the stage-2 result. Stage 2 combines J(wnf) with J(w1f),
\* stage 3 combines J(w1f) with J(w2f) and not J(wnf); the linear factor
\* of each stage multiplies the field of the stage before it, and the
\* stage-3 result wnf is what the next step starts from.
C12_Stages == [][StageOrder /\ StageInputs]_vars

C12_Witness ==
    /\ pc = "check"
    /\ steps = 2
    /\ n = 2
    /\ jarg = w2f
    /\ JId(wnf[<<1, 1>>].jr) = <<2, 2>>
    /\ JId(wnf[<<1, 1>>].jg) = <<2, 3>>
    /\ JId(wnf[<<1, 1>>].lin.lin.lin.jg) = <<1, 3>>
    /\ "jr" \notin DOMAIN w1f[<<1, 1>>]

\* padded index of original index i, as the claim states it
PadIdx(sz, i) == IF i < sz \div 2 THEN i ELSE sz + i

MiddleBand(sz, i) == i >= sz \div 2 /\ i < (3 * sz) \div 2

\* C13: nonlineardealiased pads each of its four auxiliary N x N fields
\* into a 2N x 2N array: entry (i,j) goes to (pad(i),pad(j)), pad(i) = i for
\* i < N/2 and N + i otherwise, which carries the same signed wavenumber on
\* the padded grid, scaled by (2N*2N)/(N*N); every padded entry with a row or
\* a column index in N/2 .. 3N/2-1 is exactly zero.
C13_Padding ==
    h_op \in {"pad", "extract"} =>
        \A k \in DOMAIN h_aux.dealiased :
            /\ DOMAIN h_pad[k] = Idx(2 * h_nx)
            /\ \A p \in Idx(h_nx) :
                  /\ h_pad[k][<<PadIdx(h_nx, p[1]), PadIdx(h_nx, p[2])>>] =
                        TScale(h_aux.dealiased[k][p], 4 * h_nx * h_nx, h_nx * h_nx)
                  /\ Signed(2 * h_nx, PadIdx(h_nx, p[1])) = Signed(h_nx, p[1])
                  /\ Signed(2 * h_nx, PadIdx(h_nx, p[2])) = Signed(h_nx, p[2])
            /\ \A q \in Idx(2 * h_nx) :
                  (MiddleBand(h_nx, q[1]) \/ MiddleBand(h_nx, q[2])) =>
                      h_pad[k][q] = ZeroE

C13_Witness ==
    /\ h_op = "pad"
    /\ h_nx = 4
    /\ h_pad.j2f[<<7, 6>>] = TScale(h_aux.dealiased.j2f[<<3, 2>>], 64, 16)
    /\ h_pad.j2f[<<7, 6>>] # ZeroE
    /\ h_pad.j2f[<<1, 1>>] # ZeroE
    /\ h_pad.j2f[<<2, 1>>] = ZeroE
    /\ h_pad.j2f[<<5, 1>>] = ZeroE

\* C14: padding a field and extracting the corners of the padded array
\* gives the field back entry for entry.
C14_RoundTrip ==
    h_op = "extract" =>
        \A k \in DOMAIN h_aux.dealiased : h_ext[k] = h_aux.dealiased[k]

====
